---- MODULE Spec2Model ----
(***************************************************************************)
(* Model of the AI Vision Analytics application: the three sessions of    *)
(* video_processor.py (analyze_video, analyze_image, process_live_frame)  *)
(* and the parts of app.py that drive them (the "Start AI Analysis"       *)
(* handler and the live webcam loop).                                     *)
(*                                                                         *)
(* Conventions                                                             *)
(*  - A Python dict / defaultdict is a function whose DOMAIN is the set of *)
(*    keys present; DGet reads with the default, DPut inserts or updates.  *)
(*  - Confidences are integers in hundredths (0.90 is 90); a confidence    *)
(*    sum is the exact integer sum (float rounding is not modelled).       *)
(*  - A frame rate is an integer in hundredths of a frame per second, so   *)
(*    that int() has something to truncate (29.97 fps is 2997).            *)
(*  - A duration is the exact fraction [num, den] that Python's "/"        *)
(*    rounds to a float.                                                   *)
(***************************************************************************)
EXTENDS Integers, Sequences, FiniteSets, TLC

\* ---------------------------------------------------------------- bounds
MaxFrames == 3          \* frames a video source delivers at most
MaxBoxes == 1           \* detections the engine returns for a video frame
MaxImageBoxes == 3      \* detections the engine returns for an image
MaxLiveFrames == 2      \* frames a live session starts at most
MaxThreadCalls == 2     \* engine calls one script thread makes at most
MaxRuns == 2            \* script runs one browser session goes through

\* ------------------------------------------------------- input alphabets
Classes == {"Car", "Person"}
Ids == {1, 2}
NoId == 0                                   \* box.id is None
Confs == {70, 90}                           \* engine filters at conf=0.3
RawFpsValues == {0, 2997, 3000}             \* cap.get(CAP_PROP_FPS) * 100
DeclaredCounts == {0, 2}                    \* cap.get(CAP_PROP_FRAME_COUNT)

TrackedBox == [cls : Classes, id : Ids, conf : Confs]
UntrackedBox == [cls : Classes, id : {NoId}, conf : Confs]

BoxSeqs(S, n) == UNION {[1..k -> S] : k \in 0..n}

\* what model.track returns for one frame: every box carries a track id, or
\* (boxes.id is None) none does
TrackFrames == BoxSeqs(TrackedBox, MaxBoxes) \cup BoxSeqs(UntrackedBox, MaxBoxes)
\* what model.predict returns for an image: no identities
PredictFrames == BoxSeqs(UntrackedBox, MaxImageBoxes)

\* ------------------------------------------------------------- dict model
None == [none |-> TRUE]
EmptyDict == [k \in {} |-> 0]
DGet(d, k, dflt) == IF k \in DOMAIN d THEN d[k] ELSE dflt
DPut(d, k, v) == [x \in (DOMAIN d) \cup {k} |-> IF x = k THEN v ELSE d[x]]

Fraction(n, d) == [num |-> n, den |-> d]
ZeroDuration == Fraction(0, 1)              \* the literal 0 of "return ..., 0"

\* --------------------------------------------------- video_processor.py
NewVideoAnalytics ==
    [total_frames |-> 0, unique_ids |-> EmptyDict, class_count |-> EmptyDict,
     confidence_sum |-> EmptyDict, confidence_count |-> EmptyDict]

NewImageAnalytics ==
    [unique_ids |-> EmptyDict, class_count |-> EmptyDict,
     confidence_sum |-> EmptyDict, confidence_count |-> EmptyDict]

\* variant: the frame rate rounded to the nearest integer, not truncated
ResolveFpsRounded(raw) ==
    IF (raw + 50) \div 100 = 0 THEN 30 ELSE (raw + 50) \div 100

\* fps = int(cap.get(cv2.CAP_PROP_FPS)) or 30
ResolveFps(raw) == IF raw \div 100 = 0 THEN 30 ELSE raw \div 100

\* results[0].boxes.id is None
BoxesIdIsNone(boxes) == \A i \in 1..Len(boxes) : boxes[i].id = NoId

\* variant: the confidence counters advance only for a track id not yet seen
TrackBoxOncePerId(a, box) ==
    IF box.id = NoId \/ box.id \in DGet(a.unique_ids, box.cls, {}) THEN a
    ELSE [a EXCEPT
            !.unique_ids = DPut(@, box.cls, DGet(@, box.cls, {}) \cup {box.id}),
            !.confidence_sum = DPut(@, box.cls, DGet(@, box.cls, 0) + box.conf),
            !.confidence_count = DPut(@, box.cls, DGet(@, box.cls, 0) + 1)]

\* the body of "for box in results[0].boxes" in analyze_video
TrackBox(a, box) ==
    IF box.id = NoId THEN a
    ELSE [a EXCEPT
            !.unique_ids = DPut(@, box.cls, DGet(@, box.cls, {}) \cup {box.id}),
            !.confidence_sum = DPut(@, box.cls, DGet(@, box.cls, 0) + box.conf),
            !.confidence_count = DPut(@, box.cls, DGet(@, box.cls, 0) + 1)]

RECURSIVE TrackBoxes(_, _, _)
TrackBoxes(a, boxes, i) ==
    IF i > Len(boxes) THEN a
    ELSE TrackBoxes(TrackBox(a, boxes[i]), boxes, i + 1)

\* lines 50-60: one frame's detections folded into the analytics
IngestTracking(a, boxes) ==
    IF BoxesIdIsNone(boxes) THEN a ELSE TrackBoxes(a, boxes, 1)

\* variant: class_count[cls_name] += len(ids)
FinalizeAccumulate(a) ==
    [a EXCEPT !.class_count =
        [c \in (DOMAIN a.class_count) \cup (DOMAIN a.unique_ids) |->
            DGet(a.class_count, c, 0)
                + Cardinality(DGet(a.unique_ids, c, {}))]]

\* variant: class_count written for every class the engine knows
FinalizeAllClasses(a) ==
    [a EXCEPT !.class_count =
        [c \in Classes |-> Cardinality(DGet(a.unique_ids, c, {}))]]

\* variant: class_count taken from the per-detection counter
FinalizeByInstances(a) == [a EXCEPT !.class_count = a.confidence_count]

\* variant: the derivation of class_count left out
FinalizeSkipped(a) == a

\* lines 74-75: class_count[c] = len(ids) for every class of unique_ids
Finalize(a) ==
    [a EXCEPT !.class_count =
        [c \in (DOMAIN a.class_count) \cup (DOMAIN a.unique_ids) |->
            IF c \in DOMAIN a.unique_ids
            THEN Cardinality(a.unique_ids[c])
            ELSE a.class_count[c]]]

\* line 77: duration_sec = analytics["total_frames"] / fps
DurationSec(a, f) == Fraction(a.total_frames, f)

\* variant: class_count[cls_name] = 1 in place of += 1
ShotBoxAssign(a, box) ==
    [a EXCEPT
        !.class_count = DPut(@, box.cls, 1),
        !.confidence_sum = DPut(@, box.cls, DGet(@, box.cls, 0) + box.conf),
        !.confidence_count = DPut(@, box.cls, DGet(@, box.cls, 0) + 1)]

\* the body of "for box in results[0].boxes" in analyze_image
ShotBox(a, box) ==
    [a EXCEPT
        !.class_count = DPut(@, box.cls, DGet(@, box.cls, 0) + 1),
        !.confidence_sum = DPut(@, box.cls, DGet(@, box.cls, 0) + box.conf),
        !.confidence_count = DPut(@, box.cls, DGet(@, box.cls, 0) + 1)]

RECURSIVE ShotBoxes(_, _, _)
ShotBoxes(a, boxes, i) ==
    IF i > Len(boxes) THEN a
    ELSE ShotBoxes(ShotBox(a, boxes[i]), boxes, i + 1)

IngestSingleShot(a, boxes) == ShotBoxes(a, boxes, 1)

\* ------------------------------- report_generator.py, generate_ai_summary.py
\* f"{avg_conf:.2f}": the quotient in hundredths, rounded to the nearest
\* integer, an exact tie to the even one
Format2f(f) ==
    LET q == f.num \div f.den
        r == f.num % f.den
    IN  IF 2 * r < f.den THEN q
        ELSE IF 2 * r > f.den THEN q + 1
        ELSE IF q % 2 = 0 THEN q ELSE q + 1

\* d[k] for every k of keys, read from a defaultdict: an absent key is
\* inserted with the default
ReadKeys(d, keys, dflt) == [k \in (DOMAIN d) \cup keys |-> DGet(d, k, dflt)]

\* variant: the mean over the unique objects, not over the detections
StatisticsAvgPerObject(a, c) ==
    LET avg_conf == Fraction(0, 1) IN
    IF DGet(a.confidence_count, c, 0) > 0 /\ DGet(a.class_count, c, 0) > 0
    THEN Fraction(DGet(a.confidence_sum, c, 0), DGet(a.class_count, c, 0))
    ELSE avg_conf

\* report_generator.py 227-229: avg_conf = 0.0, replaced by sum / count when
\* confidence_count[cls] > 0
StatisticsAvg(a, c) ==
    LET avg_conf == Fraction(0, 1) IN
    IF DGet(a.confidence_count, c, 0) > 0
    THEN Fraction(DGet(a.confidence_sum, c, 0), DGet(a.confidence_count, c, 0))
    ELSE avg_conf

\* report_generator.py 226-230: one row [cls, str(count), f"{avg_conf:.2f}"]
\* per item of class_count
StatisticsTable(a) ==
    [c \in DOMAIN a.class_count |->
        [count |-> a.class_count[c], avg |-> Format2f(StatisticsAvg(a, c))]]

\* what the reads of create_statistics_section leave in the defaultdicts
StatisticsReads(a) ==
    LET counts == ReadKeys(a.confidence_count, DOMAIN a.class_count, 0) IN
    [a EXCEPT
        !.confidence_count = counts,
        !.confidence_sum =
            ReadKeys(@, {c \in DOMAIN a.class_count : counts[c] > 0}, 0)]

\* generate_ai_summary.py 72-75: sum / count if confidence_count[cls] > 0,
\* else 0.0
PdfAvg(a, c) ==
    IF DGet(a.confidence_count, c, 0) > 0
    THEN Fraction(DGet(a.confidence_sum, c, 0), DGet(a.confidence_count, c, 0))
    ELSE Fraction(0, 1)

\* generate_ai_summary.py 71-77
PdfTable(a) ==
    [c \in DOMAIN a.class_count |->
        [count |-> a.class_count[c], avg |-> Format2f(PdfAvg(a, c))]]

\* what the reads of generate_ai_summary.generate_pdf leave
PdfReads(a) ==
    LET counts == ReadKeys(a.confidence_count, DOMAIN a.class_count, 0) IN
    [a EXCEPT
        !.confidence_count = counts,
        !.confidence_sum =
            ReadKeys(@, {c \in DOMAIN a.class_count : counts[c] > 0}, 0)]

\* ----------------------------------------------------------------- app.py
\* variant: the success test asks for at least one counted class
TruthyCounts(x) == x /= None /\ DOMAIN x.class_count /= {}

\* "if analytics:" - None is false, a dict is true when it has a key
Truthy(x) == x /= None /\ DOMAIN x /= {}

\* generate_class_graph: no file is written for an empty class_count
GraphAfter(old, class_count) ==
    IF DOMAIN class_count = {} THEN old ELSE class_count

VideoOutputPath == "temp/output_tracked.mp4"
ImageOutputPath == "temp/output_result.jpg"
NoPath == "None"

InitialSessionState ==
    [analytics |-> None, duration |-> None, processed |-> FALSE,
     output_path |-> NoPath, file_type |-> "None"]

\* ------------------------------------------------------------------ state
VARIABLES
    pc,            \* position of the running script
    cap_open,      \* analyze_video: the cv2.VideoCapture is open
    out_open,      \* analyze_video: a cv2.VideoWriter was created, not released
    fps,           \* analyze_video: fps (line 24)
    total_frames,  \* analyze_video: total_frames (line 25), the declared count
    analytics,     \* the analytics dict of the running analyze_* call
    frame_count,   \* analyze_video: frame_count
    progress,      \* last value given to progress_bar.progress
    result,        \* (analytics, duration) returned to the handler
    engine_calls,  \* calls of model.track / model.predict made so far
    session_state, \* st.session_state
    graph_file,    \* class_count drawn in temp/class_distribution.png
    message,       \* st.error / st.warning / st.toast shown by the run
    run_live,      \* app.py: the local run_live of the running script
    stop_signal,   \* the user switched the toggle off during the run
    cam_open,      \* live loop: the cv2.VideoCapture(0) is open
    live_frames,   \* live loop: frames read so far
    source_ok,     \* history: "yes" when the input opened / decoded, else "no"
    src_fps,       \* history: what cap.get(CAP_PROP_FPS) returned, times 100
    seen,          \* history: (class, track id) pairs the engine reported
    instances,     \* history: per class, detections reported with a track id
    unidentified,  \* history: per class, detections reported without one
    threads,       \* the script threads of two browser sessions (one process)
    runs,          \* number of the script run in progress
    stored_run,    \* history: the run that stored session_state.analytics
    stats_table,   \* rows built by report_generator.create_statistics_section
    pdf_table      \* rows built by generate_ai_summary.generate_pdf

vars == <<pc, cap_open, out_open, fps, total_frames, analytics, frame_count,
          progress, result, engine_calls, session_state, graph_file, message,
          run_live, stop_signal, cam_open, live_frames, source_ok, src_fps,
          seen, instances, unidentified, threads, runs, stored_run,
          stats_table, pdf_table>>

videoVars == <<cap_open, out_open, fps, total_frames, frame_count, progress>>
liveVars == <<run_live, stop_signal, cam_open, live_frames>>
appVars == <<session_state, graph_file>>
countVars == <<seen, instances, unidentified>>
historyVars == <<source_ok, src_fps, seen, instances, unidentified>>
reportVars == <<stats_table, pdf_table>>
extVars == <<threads, runs, stored_run, stats_table, pdf_table>>

NoResult == [pending |-> TRUE]

\* Streamlit runs the script of each browser session in a thread of its own,
\* all in one process; video_processor is imported once, so `model` (line 8)
\* is one object for all of them.
BrowserSessions == {1, 2}
IdleThreads ==
    [s \in BrowserSessions |-> [kind |-> "none", pc |-> "idle", calls |-> 0]]
ZeroCounts == [c \in Classes |-> 0]

\* detections of class c in boxes, with (withId) or without a track id
CountOf(boxes, c, withId) ==
    Cardinality({i \in 1..Len(boxes) :
                    boxes[i].cls = c /\ (boxes[i].id /= NoId) = withId})

Record(boxes) ==
    /\ seen' = seen \cup {<<boxes[i].cls, boxes[i].id>> :
                            i \in {j \in 1..Len(boxes) : boxes[j].id /= NoId}}
    /\ instances' = [c \in Classes |-> instances[c] + CountOf(boxes, c, TRUE)]
    /\ unidentified' =
          [c \in Classes |-> unidentified[c] + CountOf(boxes, c, FALSE)]

Init ==
    /\ pc = "idle"
    /\ cap_open = FALSE
    /\ out_open = FALSE
    /\ fps = 0
    /\ total_frames = 0
    /\ analytics = None
    /\ frame_count = 0
    /\ progress = None
    /\ result = NoResult
    /\ engine_calls = 0
    /\ session_state = InitialSessionState
    /\ graph_file = None
    /\ message = "none"
    /\ run_live = FALSE
    /\ stop_signal = FALSE
    /\ cam_open = FALSE
    /\ live_frames = 0
    /\ source_ok = "unknown"
    /\ src_fps = 0
    /\ seen = {}
    /\ instances = ZeroCounts
    /\ unidentified = ZeroCounts
    /\ threads = IdleThreads
    /\ runs = 1
    /\ stored_run = 0
    /\ stats_table = None
    /\ pdf_table = None

\* ------------------------------------------- app.py uploads (176-190)
\* lines 176-182: a video is uploaded and saved as temp/input_video.mp4
UploadVideo ==
    /\ pc = "idle"
    /\ session_state' = [session_state EXCEPT !.file_type = "video"]
    /\ pc' = "uploaded"
    /\ UNCHANGED <<videoVars, analytics, result, engine_calls, graph_file,
                   message, liveVars, historyVars>>
    /\ UNCHANGED extVars

\* lines 184-190: an image is uploaded and saved as temp/input_image.jpg
UploadImage ==
    /\ pc = "idle"
    /\ session_state' = [session_state EXCEPT !.file_type = "image"]
    /\ pc' = "uploaded"
    /\ UNCHANGED <<videoVars, analytics, result, engine_calls, graph_file,
                   message, liveVars, historyVars>>
    /\ UNCHANGED extVars

\* line 198: the branch "Start AI Analysis" takes
StartsVideo == pc = "uploaded" /\ session_state.file_type = "video"
StartsImage == pc = "uploaded" /\ session_state.file_type /= "video"

\* ------------------------------------------------- analyze_video (10-78)
\* lines 17-20: the source cannot be opened
VideoOpenFails ==
    /\ StartsVideo
    /\ pc' = "returned"
    /\ result' = [analytics |-> None, duration |-> ZeroDuration]
    /\ source_ok' = "no"
    /\ UNCHANGED <<videoVars, analytics, engine_calls, appVars, message,
                   liveVars, src_fps, countVars>>
    /\ UNCHANGED extVars

\* lines 17-42: the source opens; properties are read, the writer and the
\* analytics are created
VideoOpen(rawFps, declared) ==
    /\ StartsVideo
    /\ pc' = "v_loop"
    /\ cap_open' = TRUE
    /\ fps' = ResolveFps(rawFps)
    /\ total_frames' = declared
    /\ out_open' = TRUE
    /\ analytics' = NewVideoAnalytics
    /\ frame_count' = 0
    /\ src_fps' = rawFps
    /\ source_ok' = "yes"
    /\ UNCHANGED <<progress, result, engine_calls, appVars, message, liveVars,
                   countVars>>
    /\ UNCHANGED extVars

\* line 69: progress_bar.progress(min(frame_count / total_frames, 1.0))
ProgressAfter(old, count, total) ==
    IF total > 0
    THEN (IF count >= total THEN Fraction(1, 1) ELSE Fraction(count, total))
    ELSE old

\* lines 44-69: one iteration of the loop that runs to its end
VideoFrame(boxes) ==
    /\ pc = "v_loop"
    /\ frame_count < MaxFrames
    /\ engine_calls' = engine_calls + 1
    /\ Record(boxes)
    /\ analytics' = [IngestTracking(analytics, boxes) EXCEPT
                        !.total_frames = @ + 1]
    /\ frame_count' = frame_count + 1
    /\ progress' = ProgressAfter(progress, frame_count + 1, total_frames)
    /\ UNCHANGED <<pc, cap_open, out_open, fps, total_frames, result, appVars,
                   message, liveVars, source_ok, src_fps>>
    /\ UNCHANGED extVars

\* line 48: model.track raises; nothing in analyze_video or app.py catches
\* it, and the analytics dict, a local of analyze_video, is lost with the call
VideoEngineError ==
    /\ pc = "v_loop"
    /\ frame_count < MaxFrames
    /\ engine_calls' = engine_calls + 1
    /\ pc' = "raised_in_track"
    /\ analytics' = None
    /\ UNCHANGED <<videoVars, result, appVars, message, liveVars, historyVars>>
    /\ UNCHANGED extVars

\* line 63: out.write raises after the frame's detections were ingested; the
\* analytics dict, a local of analyze_video, is lost with the call, and the
\* history keeps only the frames whose iteration completed
VideoEncoderError ==
    /\ pc = "v_loop"
    /\ frame_count < MaxFrames
    /\ engine_calls' = engine_calls + 1
    /\ analytics' = None
    /\ pc' = "raised_in_write"
    /\ UNCHANGED <<videoVars, result, appVars, message, liveVars, historyVars>>
    /\ UNCHANGED extVars

\* lines 44-45 and 71-78: cap.read() returns ret = False (end of stream or a
\* read failure), the loop breaks, both handles are released, class_count is
\* derived and the pair is returned
VideoFinish ==
    /\ pc = "v_loop"
    /\ cap_open' = FALSE
    /\ out_open' = FALSE
    /\ analytics' = Finalize(analytics)
    /\ result' = [analytics |-> Finalize(analytics),
                  duration |-> DurationSec(analytics, fps)]
    /\ pc' = "returned"
    /\ UNCHANGED <<fps, total_frames, frame_count, progress, engine_calls,
                   appVars, message, liveVars, historyVars>>
    /\ UNCHANGED extVars

\* ------------------------------------------------ analyze_image (80-109)
\* lines 84-86: cv2.imread returns None
ImageDecodeFails ==
    /\ StartsImage
    /\ pc' = "returned"
    /\ result' = [analytics |-> None, duration |-> ZeroDuration]
    /\ source_ok' = "no"
    /\ UNCHANGED <<videoVars, analytics, engine_calls, appVars, message,
                   liveVars, src_fps, countVars>>
    /\ UNCHANGED extVars

\* lines 84-109: the image decodes, the engine predicts, every box is counted
ImageAnalyze(boxes) ==
    /\ StartsImage
    /\ pc' = "returned"
    /\ source_ok' = "yes"
    /\ engine_calls' = engine_calls + 1
    /\ Record(boxes)
    /\ analytics' = IngestSingleShot(NewImageAnalytics, boxes)
    /\ result' = [analytics |-> IngestSingleShot(NewImageAnalytics, boxes),
                  duration |-> ZeroDuration]
    /\ UNCHANGED <<videoVars, appVars, message, liveVars, src_fps>>
    /\ UNCHANGED extVars

\* ---------------------------------- app.py "Start AI Analysis" (198-218)
\* lines 198-204: output_path follows the branch taken
OutputPathOf(file_type) ==
    IF file_type = "video" THEN VideoOutputPath ELSE ImageOutputPath

\* lines 207-218: the success test and what each branch stores and shows
Handler ==
    /\ pc = "returned"
    /\ pc' = "done"
    /\ IF Truthy(result.analytics)
       THEN /\ session_state' =
                  [session_state EXCEPT
                     !.analytics = result.analytics,
                     !.duration = result.duration,
                     !.output_path = OutputPathOf(session_state.file_type),
                     !.processed = TRUE]
            /\ graph_file' = GraphAfter(graph_file, result.analytics.class_count)
            /\ message' = "toast: Done!"
            /\ stored_run' = runs
       ELSE /\ message' = "error: Failed."
            /\ UNCHANGED <<appVars, stored_run>>
    /\ UNCHANGED <<videoVars, analytics, result, engine_calls, liveVars,
                   historyVars, threads, runs, reportVars>>

\* app.py 226, 257-269: with the dashboard shown, "Generate PDF Report" is
\* pressed; the run it causes reaches generate_pdf with the stored analytics,
\* and create_statistics_section reads them
GeneratePdf ==
    /\ pc = "done"
    /\ session_state.processed
    /\ ~run_live
    /\ pc' = "reported"
    /\ stats_table' = StatisticsTable(session_state.analytics)
    /\ session_state' =
          [session_state EXCEPT !.analytics = StatisticsReads(@)]
    /\ UNCHANGED <<videoVars, analytics, result, engine_calls, graph_file,
                   message, liveVars, historyVars, threads, runs, stored_run,
                   pdf_table>>

\* ------------------------------------------ app.py live webcam (140-163)
\* A Streamlit script run is re-executed from the top when a widget changes.
\* The run in progress learns of it only inside a call into Streamlit
\* (st_frame.image, st.warning): with a rerun pending that call does not
\* return, the run is abandoned there and the statements after it are not
\* executed.
Streaming == {"l_check", "l_read", "l_process", "l_show"}
Stopped == {"l_stopped", "l_interrupted"}

\* lines 140-146: the toggle is on, the camera cannot be opened
LiveNoCamera ==
    /\ pc = "idle"
    /\ run_live' = TRUE
    /\ message' = "error: Webcam not detected."
    /\ pc' = "done"
    /\ UNCHANGED <<videoVars, analytics, result, engine_calls, appVars,
                   stop_signal, cam_open, live_frames, historyVars>>
    /\ UNCHANGED extVars

\* lines 140-147: the toggle is on, the camera opens
LiveStart ==
    /\ pc = "idle"
    /\ run_live' = TRUE
    /\ cam_open' = TRUE
    /\ pc' = "l_check"
    /\ UNCHANGED <<videoVars, analytics, result, engine_calls, appVars,
                   message, stop_signal, live_frames, historyVars>>
    /\ UNCHANGED extVars

\* the user switches the toggle off while the loop runs
ToggleOff ==
    /\ pc \in Streaming
    /\ ~stop_signal
    /\ stop_signal' = TRUE
    /\ UNCHANGED <<pc, videoVars, analytics, result, engine_calls, appVars,
                   message, run_live, cam_open, live_frames, historyVars>>
    /\ UNCHANGED extVars

\* line 148: while run_live
LiveCheck ==
    /\ pc = "l_check"
    /\ live_frames < MaxLiveFrames
    /\ pc' = IF run_live THEN "l_read" ELSE "l_release"
    /\ UNCHANGED <<videoVars, analytics, result, engine_calls, appVars,
                   message, liveVars, historyVars>>
    /\ UNCHANGED extVars

\* line 149, ret = True
LiveRead ==
    /\ pc = "l_read"
    /\ live_frames' = live_frames + 1
    /\ pc' = "l_process"
    /\ UNCHANGED <<videoVars, analytics, result, engine_calls, appVars,
                   message, run_live, stop_signal, cam_open, historyVars>>
    /\ UNCHANGED extVars

\* lines 149-152, ret = False: st.warning, then break
LiveReadFails ==
    /\ pc = "l_read"
    /\ IF stop_signal
       THEN pc' = "l_interrupted" /\ UNCHANGED message
       ELSE pc' = "l_release" /\ message' = "warning: Camera stream ended."
    /\ UNCHANGED <<videoVars, analytics, result, engine_calls, appVars,
                   liveVars, historyVars>>
    /\ UNCHANGED extVars

\* line 155 and process_live_frame (111-119): one engine call per frame
LiveProcess ==
    /\ pc = "l_process"
    /\ engine_calls' = engine_calls + 1
    /\ pc' = "l_show"
    /\ UNCHANGED <<videoVars, analytics, result, appVars, message, liveVars,
                   historyVars>>
    /\ UNCHANGED extVars

\* lines 158-159: st_frame.image
LiveShow ==
    /\ pc = "l_show"
    /\ pc' = IF stop_signal THEN "l_interrupted" ELSE "l_check"
    /\ UNCHANGED <<videoVars, analytics, result, engine_calls, appVars,
                   message, liveVars, historyVars>>
    /\ UNCHANGED extVars

\* line 161: cap.release()
LiveRelease ==
    /\ pc = "l_release"
    /\ cam_open' = FALSE
    /\ pc' = "l_stopped"
    /\ UNCHANGED <<videoVars, analytics, result, engine_calls, appVars,
                   message, run_live, stop_signal, live_frames, historyVars>>
    /\ UNCHANGED extVars

\* ---------------------------------------------------------- specification
Next ==
    \/ UploadVideo
    \/ UploadImage
    \/ VideoOpenFails
    \/ \E r \in RawFpsValues, d \in DeclaredCounts : VideoOpen(r, d)
    \/ \E boxes \in TrackFrames : VideoFrame(boxes)
    \/ VideoEngineError
    \/ VideoEncoderError
    \/ VideoFinish
    \/ ImageDecodeFails
    \/ \E boxes \in PredictFrames : ImageAnalyze(boxes)
    \/ Handler
    \/ GeneratePdf
    \/ LiveNoCamera
    \/ LiveStart
    \/ ToggleOff
    \/ LiveCheck
    \/ LiveRead
    \/ LiveReadFails
    \/ LiveProcess
    \/ LiveShow
    \/ LiveRelease

Spec == Init /\ [][Next]_vars

\* ------------------------------------- one browser session, several runs
\* Every interaction re-executes app.py from the top: the locals start anew,
\* st.session_state and the files under temp/ are what the previous runs
\* left.
RunEnded == pc \in {"done", "raised_in_track", "raised_in_write"}

NewRun ==
    /\ RunEnded
    /\ runs < MaxRuns
    /\ runs' = runs + 1
    /\ pc' = "idle"
    /\ cap_open' = FALSE
    /\ out_open' = FALSE
    /\ fps' = 0
    /\ total_frames' = 0
    /\ frame_count' = 0
    /\ progress' = None
    /\ analytics' = None
    /\ result' = NoResult
    /\ engine_calls' = 0
    /\ message' = "none"
    /\ source_ok' = "unknown"
    /\ src_fps' = 0
    /\ seen' = {}
    /\ instances' = ZeroCounts
    /\ unidentified' = ZeroCounts
    /\ UNCHANGED <<appVars, liveVars, threads, stored_run, reportVars>>

\* lines 194-195: the run was caused by the upload, the button is not
\* pressed, and the script goes on to the dashboard (line 226)
NoClick ==
    /\ pc = "uploaded"
    /\ pc' = "done"
    /\ UNCHANGED <<videoVars, analytics, result, engine_calls, appVars,
                   message, liveVars, historyVars, extVars>>

\* line 226: if st.session_state.processed and input_source != live
DashboardShown == pc = "done" /\ session_state.processed /\ ~run_live

\* the engine's answers in the several-run specification
AppTrackFrames == {<<>>, <<[cls |-> "Car", id |-> 1, conf |-> 90]>>}
AppPredictFrames == {<<>>, <<[cls |-> "Person", id |-> NoId, conf |-> 70]>>}

NextApp ==
    \/ UploadVideo
    \/ UploadImage
    \/ NoClick
    \/ VideoOpenFails
    \/ VideoOpen(3000, 2)
    \/ \E boxes \in AppTrackFrames : VideoFrame(boxes)
    \/ VideoEngineError
    \/ VideoEncoderError
    \/ VideoFinish
    \/ ImageDecodeFails
    \/ \E boxes \in AppPredictFrames : ImageAnalyze(boxes)
    \/ Handler
    \/ NewRun

SpecApp == Init /\ [][NextApp]_vars

\* --------------------------------------------- the two report builders
\* Both builders take any analytics mapping; the inputs are drawn from the
\* mappings over the classes, with and without a key for each class.
PartialFns(K, V) == UNION {[D -> V] : D \in SUBSET K}
ReportInputs ==
    [unique_ids : {EmptyDict},
     class_count : PartialFns(Classes, {0, 1, 2}),
     confidence_sum : PartialFns(Classes, {0, 70, 160}),
     confidence_count : PartialFns(Classes, {0, 1, 2})]

InitReport ==
    /\ pc = "report_input"
    /\ session_state \in
          {[InitialSessionState EXCEPT !.analytics = a] : a \in ReportInputs}
    /\ cap_open = FALSE
    /\ out_open = FALSE
    /\ fps = 0
    /\ total_frames = 0
    /\ analytics = None
    /\ frame_count = 0
    /\ progress = None
    /\ result = NoResult
    /\ engine_calls = 0
    /\ graph_file = None
    /\ message = "none"
    /\ run_live = FALSE
    /\ stop_signal = FALSE
    /\ cam_open = FALSE
    /\ live_frames = 0
    /\ source_ok = "unknown"
    /\ src_fps = 0
    /\ seen = {}
    /\ instances = ZeroCounts
    /\ unidentified = ZeroCounts
    /\ threads = IdleThreads
    /\ runs = 1
    /\ stored_run = 0
    /\ stats_table = None
    /\ pdf_table = None

builderFrame == <<pc, videoVars, analytics, result, engine_calls, graph_file,
                  message, liveVars, historyVars, threads, runs, stored_run>>

\* report_generator.create_statistics_section(story, styles, analytics)
BuildStatistics ==
    /\ pc = "report_input"
    /\ stats_table = None
    /\ stats_table' = StatisticsTable(session_state.analytics)
    /\ session_state' =
          [session_state EXCEPT !.analytics = StatisticsReads(@)]
    /\ UNCHANGED <<builderFrame, pdf_table>>

\* generate_ai_summary.generate_pdf(report_path, analytics, ...)
BuildPdf ==
    /\ pc = "report_input"
    /\ pdf_table = None
    /\ pdf_table' = PdfTable(session_state.analytics)
    /\ session_state' = [session_state EXCEPT !.analytics = PdfReads(@)]
    /\ UNCHANGED <<builderFrame, stats_table>>

NextReport == BuildStatistics \/ BuildPdf

SpecReport == InitReport /\ [][NextReport]_vars

\* ------------------------------------------- two sessions, one engine
scriptVars == <<pc, cap_open, out_open, fps, total_frames, analytics,
                frame_count, progress, result, engine_calls, session_state,
                graph_file, message, run_live, stop_signal, cam_open,
                live_frames, source_ok, src_fps, seen, instances,
                unidentified, runs, stored_run, stats_table, pdf_table>>

\* app.py 155, 201, 205: the script of browser session s enters the live
\* loop, analyze_video or analyze_image
ThreadStart(s, kind) ==
    /\ threads[s].pc = "idle"
    /\ threads' = [threads EXCEPT ![s] =
                      [kind |-> kind, pc |-> "between_calls", calls |-> 0]]
    /\ UNCHANGED scriptVars

\* video_processor.py 48, 89, 117: the thread calls model.track or
\* model.predict; nothing is acquired before the call
EngineEnter(s) ==
    /\ threads[s].pc = "between_calls"
    /\ threads[s].calls < MaxThreadCalls
    /\ threads[s].kind = "image" => threads[s].calls = 0
    /\ threads' = [threads EXCEPT ![s].pc = "in_engine"]
    /\ UNCHANGED scriptVars

\* the call returns and its result is consumed (lines 50-66, 98-107, 118)
EngineReturn(s) ==
    /\ threads[s].pc = "in_engine"
    /\ threads' = [threads EXCEPT ![s].pc = "between_calls",
                                  ![s].calls = @ + 1]
    /\ UNCHANGED scriptVars

\* the loop ends (ret = False, line 45 / app.py 150) or analyze_image returns
ThreadEnd(s) ==
    /\ threads[s].pc = "between_calls"
    /\ threads[s].kind = "image" => threads[s].calls = 1
    /\ threads' = [threads EXCEPT ![s].pc = "ended"]
    /\ UNCHANGED scriptVars

NextShared ==
    \/ \E s \in BrowserSessions, k \in {"video", "image", "live"} :
          ThreadStart(s, k)
    \/ \E s \in BrowserSessions : EngineEnter(s)
    \/ \E s \in BrowserSessions : EngineReturn(s)
    \/ \E s \in BrowserSessions : ThreadEnd(s)

SpecShared == Init /\ [][NextShared]_vars

\* ================================================================ claims
Returned == result /= NoResult
VideoSession == session_state.file_type = "video"
ImageSession == session_state.file_type = "image"
\* the call returned an analytics dict (not None)
ReturnedAnalytics == Returned /\ result.analytics /= None
\* analyze_video is between its first and its last statement
VideoRunning == pc = "v_loop"

IdsSeenWith(c) == {i \in Ids : <<c, i>> \in seen}
FracEq(a, b) == a.num * b.den = b.num * a.den

\* C1: in the analytics a batch-video session returns, class_count[c] is, for
\* every class c, the number of distinct track ids the engine reported with
\* class c in any frame; detections without a track id are not counted.
C1_ClassCountIsDistinctIds ==
    (VideoSession /\ ReturnedAnalytics) =>
        \A c \in Classes :
            DGet(result.analytics.class_count, c, 0)
                = Cardinality(IdsSeenWith(c))

\* a returned video analytics where one car was seen in two frames and a
\* second car in another: three detections, two distinct ids
C1_Witness ==
    /\ VideoSession /\ ReturnedAnalytics
    /\ instances["Car"] = 3
    /\ DGet(result.analytics.class_count, "Car", 0) = 2

\* C2: in tracking mode confidence_count[c] is the number of detections of
\* class c that carried a track id, over all frames (N sightings of one id
\* add N), and a detection without a track id adds nothing to confidence_sum,
\* confidence_count, unique_ids or class_count.
C2_ConfidenceCountsInstances ==
    (VideoSession /\ (VideoRunning \/ ReturnedAnalytics)) =>
        LET a == IF VideoRunning THEN analytics ELSE result.analytics IN
        \A c \in Classes :
            /\ DGet(a.confidence_count, c, 0) = instances[c]
            /\ DGet(a.unique_ids, c, {}) = IdsSeenWith(c)
            /\ instances[c] = 0 =>
                  /\ c \notin DOMAIN a.confidence_sum
                  /\ c \notin DOMAIN a.confidence_count
                  /\ c \notin DOMAIN a.unique_ids
                  /\ c \notin DOMAIN a.class_count

\* a returned video analytics where one id was seen twice as a car (N = 2,
\* one unique id) and a person was reported without a track id
C2_Witness ==
    /\ VideoSession /\ ReturnedAnalytics
    /\ DGet(result.analytics.confidence_count, "Car", 0) = 2
    /\ DGet(result.analytics.class_count, "Car", 0) = 1
    /\ unidentified["Person"] >= 1
    /\ instances["Person"] = 0

\* C3: in every state of a tracking-mode session a track id is a member of
\* unique_ids[c] for at most one class c.
C3_IdInOneClass ==
    (VideoSession /\ (VideoRunning \/ ReturnedAnalytics)) =>
        LET a == IF VideoRunning THEN analytics ELSE result.analytics IN
        \A c1, c2 \in DOMAIN a.unique_ids :
            c1 /= c2 => a.unique_ids[c1] \cap a.unique_ids[c2] = {}

\* C4: in a single-image session K detections of class c yield
\* class_count[c] = K and confidence_count[c] = K, for every c and K >= 0,
\* and unique_ids stays empty.
C4_SingleShotCounts ==
    (ImageSession /\ ReturnedAnalytics) =>
        /\ \A c \in Classes :
              /\ DGet(result.analytics.class_count, c, 0) = unidentified[c]
              /\ DGet(result.analytics.confidence_count, c, 0) = unidentified[c]
        /\ DOMAIN result.analytics.unique_ids = {}

\* an image with three cars and no person
C4_Witness ==
    /\ ImageSession /\ ReturnedAnalytics
    /\ unidentified["Car"] = 3
    /\ unidentified["Person"] = 0
    /\ DGet(result.analytics.class_count, "Car", 0) = 3

\* the frame rate read from the source, as an integer (int() truncates)
SourceRate == src_fps \div 100

\* C5 as stated: the duration a batch-video session returns is
\* total_frames / frame_rate when the frame rate resolved from the source is
\* greater than 0 and 0 when it is not; a single-image session returns 0.
C5_DurationAsStated ==
    /\ (VideoSession /\ ReturnedAnalytics) =>
          IF SourceRate > 0
          THEN FracEq(result.duration,
                      Fraction(result.analytics.total_frames, SourceRate))
          ELSE FracEq(result.duration, ZeroDuration)
    /\ (ImageSession /\ Returned) => result.duration = ZeroDuration

\* C5 amended: the duration a batch-video session returns is
\* total_frames / fps, where fps is the source's frame rate truncated to an
\* integer and replaced by 30 when that integer is 0; a session that fails
\* to open its source and a single-image session return exactly 0.
C5_DurationWithFallback ==
    /\ (VideoSession /\ ReturnedAnalytics) =>
          /\ src_fps >= 100 =>
                /\ result.duration.num = result.analytics.total_frames
                /\ result.duration.den * 100 <= src_fps
                /\ src_fps < (result.duration.den + 1) * 100
          /\ src_fps < 100 =>
                result.duration =
                    Fraction(result.analytics.total_frames, 30)
    /\ (Returned /\ result.analytics = None) => result.duration = ZeroDuration
    /\ (ImageSession /\ Returned) => result.duration = ZeroDuration

\* a video whose source reports no frame rate, three frames processed: the
\* duration is 3/30 s, not 0
C5_Witness ==
    /\ VideoSession /\ ReturnedAnalytics
    /\ src_fps = 0
    /\ result.analytics.total_frames = 3
    /\ result.duration = Fraction(3, 30)

\* C6: a source that cannot be opened or decoded yields a result without
\* analytics and without any engine call, the handler reports it as a
\* failure, and a session that opened its source is reported as a success,
\* also when it produced no detection at all.
C6_FailureDistinctFromEmpty ==
    /\ (Returned /\ source_ok = "no") =>
          /\ result.analytics = None
          /\ engine_calls = 0
    /\ (Returned /\ pc = "done" /\ source_ok = "no") =>
          /\ message = "error: Failed."
          /\ ~session_state.processed
          /\ session_state.analytics = None
    /\ (Returned /\ pc = "done" /\ source_ok = "yes") =>
          /\ message = "toast: Done!"
          /\ session_state.processed
          /\ session_state.analytics = result.analytics
          /\ result.analytics /= None

\* a video that opened, delivered frames and produced no detection, handled
\* as a success
C6_Witness ==
    /\ pc = "done" /\ Returned /\ VideoSession /\ source_ok = "yes"
    /\ session_state.processed
    /\ session_state.analytics.total_frames >= 1
    /\ DOMAIN session_state.analytics.class_count = {}
    /\ message = "toast: Done!"

\* C7 as stated: class_count[c] = |unique_ids[c]| for every class c in every
\* state of a batch-video session, also after only part of the frames were
\* ingested.
C7_AlwaysConsistent ==
    (VideoSession /\ (VideoRunning \/ ReturnedAnalytics)) =>
        LET a == IF VideoRunning THEN analytics ELSE result.analytics IN
        \A c \in Classes :
            DGet(a.class_count, c, 0) = Cardinality(DGet(a.unique_ids, c, {}))

\* C7 amended: class_count[c] = |unique_ids[c]| for every class c in the
\* analytics analyze_video returns, also when the source stopped delivering
\* frames before the declared frame count was reached; while frames are
\* being ingested class_count is empty.
C7_ConsistentWhenReturned ==
    /\ (VideoSession /\ ReturnedAnalytics) =>
          \A c \in Classes :
              DGet(result.analytics.class_count, c, 0)
                  = Cardinality(DGet(result.analytics.unique_ids, c, {}))
    /\ (VideoSession /\ VideoRunning) => DOMAIN analytics.class_count = {}

\* a run that ended after one of two declared frames, with one tracked car
C7_Witness ==
    /\ VideoSession /\ ReturnedAnalytics
    /\ total_frames = 2
    /\ result.analytics.total_frames = 1
    /\ DGet(result.analytics.unique_ids, "Car", {}) = {1}
    /\ DGet(result.analytics.class_count, "Car", 0) = 1

\* C8: analyze_video has released the decoder and the encoder it acquired
\* on every exit path: end of stream, failure to open the source, an error
\* raised by the engine or by the encoder.
VideoExited == pc \in {"returned", "done", "raised_in_track", "raised_in_write"}
C8_HandlesReleased == (VideoSession /\ VideoExited) => ~cap_open /\ ~out_open

\* C9: once stop is signalled while STREAMING, the live loop starts no
\* further frame: at the iteration boundary it does not go on to read.
C9_NoFrameAfterStop ==
    [][(stop_signal /\ pc = "l_check") => pc' /= "l_read"]_vars

\* C10: whenever a live session has left STREAMING, after a stop signal or
\* after a failed frame read, the camera handle is released, and a failed
\* read ends the loop with a warning, not an error.
C10_CameraReleased ==
    /\ pc \in Stopped => ~cam_open
    /\ (pc = "l_stopped" /\ ~stop_signal) =>
          message = "warning: Camera stream ended."

\* C11: the process-wide engine is never inside two calls at once: the
\* engine calls of any two sessions of the process do not overlap (within
\* one session a call returns before the next frame is requested).
InEngine == {s \in BrowserSessions : threads[s].pc = "in_engine"}
C11_EngineCallsDoNotOverlap == Cardinality(InEngine) <= 1

\* C12: a batch-video session whose source stopped delivering frames before
\* all of its frames were processed is not reported to the caller as a run
\* that completed.
PartialRun ==
    /\ VideoSession /\ ReturnedAnalytics
    /\ total_frames > 0
    /\ result.analytics.total_frames < total_frames
C12_PartialNotReportedComplete ==
    (pc = "done" /\ PartialRun) =>
        ~(message = "toast: Done!" /\ session_state.processed)

\* C13: once a new analysis session has ended, successfully or not, the
\* application holds no analytics (nor duration, output) of an earlier one.
C13_PreviousDiscarded ==
    (pc = "done" /\ Returned) =>
        (session_state.analytics = None \/ stored_run = runs)

\* C17: whenever the dashboard is shown, the file_type used to render the
\* output matches the kind of file at output_path, and the graph file was
\* drawn from the class_count of the analytics currently stored.
C17_DashboardFromOneSession ==
    DashboardShown =>
        /\ session_state.output_path = OutputPathOf(session_state.file_type)
        /\ graph_file /= None =>
              graph_file = session_state.analytics.class_count

\* C14: finalization is idempotent: applied a second time to an already
\* finalized (returned) analytics it yields the same class_count, the same
\* average confidence of every class and the same duration as applied once.
C14_FinalizeIdempotent ==
    (VideoSession /\ ReturnedAnalytics) =>
        LET once == result.analytics
            twice == Finalize(once)
        IN  /\ twice.class_count = once.class_count
            /\ \A c \in Classes :
                  FracEq(StatisticsAvg(twice, c), StatisticsAvg(once, c))
            /\ DurationSec(twice, fps) = DurationSec(once, fps)

\* a returned (finalized) analytics with two cars, on which a second
\* finalization changes nothing
C14_Witness ==
    /\ VideoSession /\ ReturnedAnalytics
    /\ DGet(result.analytics.class_count, "Car", 0) = 2
    /\ DGet(result.analytics.class_count, "Person", 0) = 1
    /\ Finalize(result.analytics) = result.analytics

\* C15: the average confidence of a class is confidence_sum / confidence_count,
\* 0.0 when confidence_count is 0, and create_statistics_section and
\* generate_ai_summary.generate_pdf give the same value for every class of
\* every analytics.
ExpectedAvg(a, c) ==
    IF DGet(a.confidence_count, c, 0) = 0 THEN 0
    ELSE Format2f(Fraction(DGet(a.confidence_sum, c, 0),
                           DGet(a.confidence_count, c, 0)))
C15_AverageConfidenceAgrees ==
    /\ stats_table /= None =>
          \A c \in DOMAIN stats_table :
              stats_table[c].avg = ExpectedAvg(session_state.analytics, c)
    /\ pdf_table /= None =>
          \A c \in DOMAIN pdf_table :
              pdf_table[c].avg = ExpectedAvg(session_state.analytics, c)
    /\ (stats_table /= None /\ pdf_table /= None) => stats_table = pdf_table

\* both tables built for an analytics with a class that has no detection
\* counter (average 0.00) and a class with two detections (average 0.80)
C15_Witness ==
    /\ pc = "report_input"
    /\ stats_table /= None /\ pdf_table /= None
    /\ DOMAIN stats_table = Classes
    /\ stats_table["Car"].avg = 0
    /\ pdf_table["Person"].avg = 80
    /\ session_state.analytics.confidence_count["Car"] = 0

\* C16: in every analytics analyze_video or analyze_image returns, each key
\* of class_count is a key of confidence_count and of confidence_sum, with
\* confidence_count[c] >= class_count[c] >= 1, so the reads made for the
\* report leave the stored analytics as it was returned.
C16_ReadsLeaveUnchanged ==
    /\ ReturnedAnalytics =>
          \A c \in DOMAIN result.analytics.class_count :
              /\ c \in DOMAIN result.analytics.confidence_count
              /\ c \in DOMAIN result.analytics.confidence_sum
              /\ result.analytics.confidence_count[c]
                    >= result.analytics.class_count[c]
              /\ result.analytics.class_count[c] >= 1
    /\ pc = "reported" =>
          /\ session_state.analytics = result.analytics
          /\ DOMAIN stats_table = DOMAIN session_state.analytics.class_count

\* the statistics table was built from a video analytics with a car seen
\* in two frames
C16_Witness ==
    /\ pc = "reported" /\ VideoSession
    /\ stats_table /= None
    /\ DGet(session_state.analytics.class_count, "Car", 0) = 1
    /\ DGet(session_state.analytics.confidence_count, "Car", 0) = 2

====
